---- MODULE Spec2Model ----
(***************************************************************************)
(* HR data cleaning and validation pipeline (src/src/pipeline.py).         *)
(*                                                                         *)
(* The script is one sequential run over a single DataFrame `df`:          *)
(*   load -> impute -> drop duplicates -> fix types -> IQR outlier flags   *)
(*        -> write interim -> validation rules -> write report/final.      *)
(* Each numbered section of the script is one action; the validation loop  *)
(* takes one step per rule.                                                *)
(*                                                                         *)
(* Cell values are records [t, n, d, s]:                                   *)
(*   t = "null"  a missing value (NaN / NaT / None)                        *)
(*   t = "num"   the exact rational n/d (d > 0, lowest terms)              *)
(*   t = "str"   the text s, a sequence of one-character strings           *)
(* pandas semantics are those of pandas 1.x/2.x with numpy dtypes, the     *)
(* versions the script was written for: astype(str) turns NaN into the     *)
(* text "nan", comparisons against NaN/NaT give False.  Floating point is  *)
(* modelled by exact rational arithmetic.  Line 1 of the file is its title *)
(* and is not a statement of the run.                                      *)
(***************************************************************************)
EXTENDS Integers, Sequences, FiniteSets, TLC

VARIABLES raw, df, cols, pc, ruleIdx, violations,
          interimFile, finalFile, reportFile

vars == <<raw, df, cols, pc, ruleIdx, violations,
          interimFile, finalFile, reportFile>>

\* Largest number of data rows in the loaded CSV file.
MaxRows == 3

\* Largest number of rows of the column handed to detect_outliers_iqr when
\* the function is checked on its own.
MaxOutRows == 5

-----------------------------------------------------------------------------
(* Values *)

Null == [t |-> "null", n |-> 0, d |-> 1, s |-> <<>>]

Str(chars) == [t |-> "str", n |-> 0, d |-> 1, s |-> chars]

Abs(x) == IF x < 0 THEN -x ELSE x

RECURSIVE Gcd(_, _)
Gcd(a, b) == IF b = 0 THEN a ELSE Gcd(b, a % b)

\* The rational a/b (b > 0) in lowest terms.
Rat(a, b) ==
    LET g == Gcd(Abs(a), b)
    IN  [t |-> "num", n |-> a \div g, d |-> b \div g, s |-> <<>>]

Num(a) == Rat(a, 1)

IsNull(v) == v.t = "null"

RatAdd(x, y) == Rat(x.n * y.d + y.n * x.d, x.d * y.d)

RatSub(x, y) == Rat(x.n * y.d - y.n * x.d, x.d * y.d)

\* x * (a/b)
RatScale(x, a, b) == Rat(x.n * a, x.d * b)

\* Numeric comparisons; False as soon as one side is NaN.
Lt(x, y) == x.t = "num" /\ y.t = "num" /\ x.n * y.d < y.n * x.d

Le(x, y) == x.t = "num" /\ y.t = "num" /\ x.n * y.d <= y.n * x.d

Range(f) == {f[i] : i \in DOMAIN f}

\* data[c] : the column c as a sequence of cell values.
Col(data, c) == [i \in 1..Len(data) |-> data[i].v[c]]

SetCol(data, c, vals) ==
    [i \in 1..Len(data) |->
        [data[i] EXCEPT !.v = [k \in (DOMAIN data[i].v) \cup {c} |->
                                  IF k = c THEN vals[i] ELSE data[i].v[k]]]]

NonNull(vals) == SelectSeq(vals, LAMBDA v : ~IsNull(v))

RECURSIVE RatSum(_)
RatSum(vals) ==
    IF vals = <<>> THEN Num(0) ELSE RatAdd(Head(vals), RatSum(Tail(vals)))

\* Series.mean(): NaN is skipped; NaN when nothing is left.
Mean(vals) ==
    LET nn == NonNull(vals)
    IN  IF nn = <<>> THEN Null
        ELSE LET sm == RatSum(nn) IN Rat(sm.n, sm.d * Len(nn))

\* Series.fillna(value)
Fillna(vals, value) ==
    [i \in 1..Len(vals) |-> IF IsNull(vals[i]) THEN value ELSE vals[i]]

-----------------------------------------------------------------------------
(* Text *)

Digits == <<"0", "1", "2", "3", "4", "5", "6", "7", "8", "9">>

UpperCase == <<"A", "B", "C", "D", "E", "F", "G", "H", "I", "J", "K", "L", "M",
               "N", "O", "P", "Q", "R", "S", "T", "U", "V", "W", "X", "Y", "Z">>

LowerCase == <<"a", "b", "c", "d", "e", "f", "g", "h", "i", "j", "k", "l", "m",
               "n", "o", "p", "q", "r", "s", "t", "u", "v", "w", "x", "y", "z">>

IsDigit(ch) == \E k \in 1..10 : Digits[k] = ch

DigitVal(ch) == (CHOOSE k \in 1..10 : Digits[k] = ch) - 1

\* The number written by a sequence of digits.
RECURSIVE DecVal(_)
DecVal(chars) ==
    IF chars = <<>> THEN 0
    ELSE 10 * DecVal(SubSeq(chars, 1, Len(chars) - 1)) + DigitVal(chars[Len(chars)])

AllDigits(chars) == chars # <<>> /\ \A i \in 1..Len(chars) : IsDigit(chars[i])

\* str.lower() of one character.
LowerChar(ch) ==
    IF \E k \in 1..26 : UpperCase[k] = ch
    THEN LowerCase[CHOOSE k \in 1..26 : UpperCase[k] = ch]
    ELSE ch

LowerText(chars) == [i \in 1..Len(chars) |-> LowerChar(chars[i])]

\* str.contains(pat) for a literal pattern: pat occurs somewhere in chars.
ContainsText(chars, pat) ==
    \E k \in 0..(Len(chars) - Len(pat)) :
        \A i \in 1..Len(pat) : chars[k + i] = pat[i]

TextNan == <<"n", "a", "n">>

TextUnknown == <<"U", "n", "k", "n", "o", "w", "n">>

TextManagerPat == <<"m", "a", "n", "a", "g", "e", "r">>

-----------------------------------------------------------------------------
(* 3) HANDLE MISSING VALUES *)

numeric_cols_initial ==
    <<"DistanceFromHome", "HourlyRate", "NumCompaniesWorked",
      "PercentSalaryHike", "TotalWorkingYears", "YearsAtCompany",
      "YearsSinceLastPromotion", "YearsWithCurrManager">>

text_cols ==
    <<"AgeGroup", "Attrition", "BusinessTravel", "Department",
      "Education", "EducationField", "JobRole", "MaritalStatus",
      "Over18", "OverTime">>

numeric_cols_remaining ==
    <<"DailyRate", "EmployeeCount", "EmployeeNumber",
      "EnvironmentSatisfaction", "JobInvolvement", "JobLevel",
      "JobSatisfaction", "MonthlyIncome", "MonthlyRate",
      "PerformanceRating", "StandardHours", "StockOptionLevel",
      "WorkLifeBalance", "RelationshipSatisfaction">>

\* df[col] = df[col].fillna(df[col].mean())
FillnaMean(data, c) == SetCol(data, c, Fillna(Col(data, c), Mean(Col(data, c))))

\* for col in list: if col in df.columns: df[col] = df[col].fillna(df[col].mean())
RECURSIVE ImputeNumeric(_, _, _)
ImputeNumeric(data, columns, list) ==
    IF list = <<>> THEN data
    ELSE ImputeNumeric(IF Head(list) \in columns
                       THEN FillnaMean(data, Head(list)) ELSE data,
                       columns, Tail(list))

\* for col in text_cols: if col in df.columns: df[col] = df[col].fillna("Unknown")
RECURSIVE ImputeText(_, _, _)
ImputeText(data, columns, list) ==
    IF list = <<>> THEN data
    ELSE ImputeText(IF Head(list) \in columns
                    THEN SetCol(data, Head(list),
                                Fillna(Col(data, Head(list)), Str(TextUnknown)))
                    ELSE data,
                    columns, Tail(list))

-----------------------------------------------------------------------------
(* 4) REMOVE DUPLICATES & ENFORCE UNIQUE IDs *)

id_cols == <<"EmpID", "EmployeeNumber">>

RECURSIVE Pick(_, _, _)
Pick(data, keep, i) ==
    IF i > Len(data) THEN <<>>
    ELSE (IF i \in keep THEN <<data[i]>> ELSE <<>>) \o Pick(data, keep, i + 1)

\* Series.duplicated(): a later repeat of an earlier value (NaN equals NaN).
Duplicated(vals) ==
    [i \in 1..Len(vals) |-> \E j \in 1..(i - 1) : vals[j] = vals[i]]

\* df.drop_duplicates(): keep the first of the rows equal in every column;
\* the index labels of the kept rows are unchanged.
DropDuplicates(data) ==
    LET dup == Duplicated([i \in 1..Len(data) |-> data[i].v])
    IN  Pick(data, {i \in 1..Len(data) : ~dup[i]}, 1)

\* df.drop_duplicates(subset=[col])
DropDuplicatesSubset(data, c) ==
    LET dup == Duplicated(Col(data, c))
    IN  Pick(data, {i \in 1..Len(data) : ~dup[i]}, 1)

RECURSIVE DropDuplicateIds(_, _, _)
DropDuplicateIds(data, columns, list) ==
    IF list = <<>> THEN data
    ELSE DropDuplicateIds(IF Head(list) \in columns
                          THEN DropDuplicatesSubset(data, Head(list)) ELSE data,
                          columns, Tail(list))

\* Section 4 without the per-identifier pass.
RemoveDuplicatesRowsOnly(data, columns) == DropDuplicates(data)

\* df = df.drop_duplicates(); then one drop_duplicates(subset=[col]) per id column
RemoveDuplicates(data, columns) ==
    DropDuplicateIds(DropDuplicates(data), columns, id_cols)

-----------------------------------------------------------------------------
(* 5) FIX DATA TYPES *)

numeric_columns ==
    <<"Age", "DailyRate", "DistanceFromHome", "Education", "EmployeeCount",
      "EmployeeNumber", "EnvironmentSatisfaction", "HourlyRate",
      "JobInvolvement", "JobLevel", "JobSatisfaction", "MonthlyIncome",
      "MonthlyRate", "NumCompaniesWorked", "PercentSalaryHike",
      "PerformanceRating", "RelationshipSatisfaction", "StandardHours",
      "StockOptionLevel", "TotalWorkingYears", "TrainingTimesLastYear",
      "WorkLifeBalance", "YearsAtCompany", "YearsInCurrentRole",
      "YearsSinceLastPromotion", "YearsWithCurrManager">>

categorical_columns ==
    <<"BusinessTravel", "Department", "EducationField", "Gender",
      "JobRole", "MaritalStatus", "Over18", "OverTime",
      "AgeGroup", "SalarySlab">>

\* pd.to_numeric(x, errors="coerce") of one cell: a number stays, a text that
\* writes a number becomes that number, any other text becomes NaN.
ToNumeric(v) ==
    CASE v.t = "num" -> v
      [] v.t = "null" -> Null
      [] v.t = "str" -> IF AllDigits(v.s) THEN Num(DecVal(v.s)) ELSE Null

\* astype("category") of one cell: the value is kept, only the dtype changes.
ToCategory(v) == v

\* astype(str) of one cell of an object column: NaN becomes the text "nan".
AsTypeStr(v) ==
    CASE v.t = "str" -> v
      [] v.t = "null" -> Str(TextNan)

\* for col in numeric_columns: if col in df.columns: df[col] = pd.to_numeric(...)
CoerceNumeric(data, columns) ==
    [i \in 1..Len(data) |->
        [data[i] EXCEPT !.v = [k \in DOMAIN data[i].v |->
            IF k \in Range(numeric_columns) /\ k \in columns
            THEN ToNumeric(data[i].v[k]) ELSE data[i].v[k]]]]

\* for col in categorical_columns: if col in df.columns: df[col] = df[col].astype("category")
CoerceCategory(data, columns) ==
    [i \in 1..Len(data) |->
        [data[i] EXCEPT !.v = [k \in DOMAIN data[i].v |->
            IF k \in Range(categorical_columns) /\ k \in columns
            THEN ToCategory(data[i].v[k]) ELSE data[i].v[k]]]]

\* if "EmpID" in df.columns: df["EmpID"] = df["EmpID"].astype(str)
CoerceEmpId(data, columns) ==
    [i \in 1..Len(data) |->
        [data[i] EXCEPT !.v = [k \in DOMAIN data[i].v |->
            IF k = "EmpID" /\ k \in columns
            THEN AsTypeStr(data[i].v[k]) ELSE data[i].v[k]]]]

FixTypes(data, columns) ==
    CoerceEmpId(CoerceCategory(CoerceNumeric(data, columns), columns), columns)

-----------------------------------------------------------------------------
(* 6) OUTLIER DETECTION (IQR) *)

\* NaN-propagating arithmetic.
Sub(x, y) == IF IsNull(x) \/ IsNull(y) THEN Null ELSE RatSub(x, y)

Add(x, y) == IF IsNull(x) \/ IsNull(y) THEN Null ELSE RatAdd(x, y)

Scale(x, a, b) == IF IsNull(x) THEN Null ELSE RatScale(x, a, b)

\* vals with v inserted before the first element greater than v.
RECURSIVE Insert(_, _)
Insert(v, sorted) ==
    IF sorted = <<>> THEN <<v>>
    ELSE IF Le(v, Head(sorted)) THEN <<v>> \o sorted
         ELSE <<Head(sorted)>> \o Insert(v, Tail(sorted))

RECURSIVE Sort(_)
Sort(vals) == IF vals = <<>> THEN <<>> ELSE Insert(Head(vals), Sort(Tail(vals)))

\* Series.quantile(q4 / 4): linear interpolation between the order statistics
\* of the non-null values; NaN when there is none.
Quantile(vals, q4) ==
    LET nn == Sort(NonNull(vals))
        h  == (Len(nn) - 1) * q4
        lo == h \div 4
        fr == h % 4
    IN  IF nn = <<>> THEN Null
        ELSE IF fr = 0 THEN nn[lo + 1]
             ELSE RatAdd(nn[lo + 1], RatScale(RatSub(nn[lo + 2], nn[lo + 1]), fr, 4))

\* "<column>_outlier"
FlagCol(column) == column \o "_outlier"

\* The flag column with a missing value flagged like a value outside the fence.
OutlierFlagsNullFlagged(vals) ==
    LET Q1 == Quantile(vals, 1)
        Q3 == Quantile(vals, 3)
        IQR == Sub(Q3, Q1)
        lower == Sub(Q1, Scale(IQR, 3, 2))
        upper == Add(Q3, Scale(IQR, 3, 2))
    IN  [i \in 1..Len(vals) |->
            IF ~Le(lower, vals[i]) \/ ~Le(vals[i], upper) THEN Num(1) ELSE Num(0)]

\* ((data[column] < lower) | (data[column] > upper)).astype(int)
OutlierFlags(vals) ==
    LET Q1 == Quantile(vals, 1)
        Q3 == Quantile(vals, 3)
        IQR == Sub(Q3, Q1)
        lower == Sub(Q1, Scale(IQR, 3, 2))
        upper == Add(Q3, Scale(IQR, 3, 2))
    IN  [i \in 1..Len(vals) |->
            IF Lt(vals[i], lower) \/ Lt(upper, vals[i]) THEN Num(1) ELSE Num(0)]

detect_outliers_iqr(data, column) ==
    SetCol(data, FlagCol(column), OutlierFlags(Col(data, column)))

numeric_cols_outliers ==
    <<"DailyRate", "DistanceFromHome", "MonthlyIncome", "MonthlyRate",
      "PercentSalaryHike", "TotalWorkingYears", "YearsWithCurrManager">>

\* for col in numeric_cols_outliers: if col in df.columns: df = detect_outliers_iqr(df, col)
RECURSIVE FlagOutliers(_, _, _)
FlagOutliers(data, columns, list) ==
    IF list = <<>> THEN data
    ELSE FlagOutliers(IF Head(list) \in columns
                      THEN detect_outliers_iqr(data, Head(list)) ELSE data,
                      columns, Tail(list))

FlagColumns(columns) ==
    {FlagCol(numeric_cols_outliers[k]) :
        k \in {j \in 1..Len(numeric_cols_outliers) : numeric_cols_outliers[j] \in columns}}

\* DataFrame.to_csv(path, index=False): the columns and the rows' values,
\* without the index labels.
ToCsv(data, columns) ==
    [columns |-> columns, rows |-> [i \in 1..Len(data) |-> data[i].v]]

\* A file that has not been written.
NoFile == [columns |-> {}, rows |-> <<>>]

-----------------------------------------------------------------------------
(* 7) DATA VALIDATION RULES *)

\* A verdict of a rule on one row: "T" / "F", or "NA" for a missing verdict.
B(b) == IF b THEN "T" ELSE "F"

\* def is_positive(series): return series > 0
is_positive(vals) == [i \in 1..Len(vals) |-> B(Lt(Num(0), vals[i]))]

\* def in_range(series, lo, hi): return series.between(lo, hi)
in_range(vals, lo, hi) ==
    [i \in 1..Len(vals) |-> B(Le(Num(lo), vals[i]) /\ Le(vals[i], Num(hi)))]

\* re.match of ^[^@]+@[^@]+\.[^@]+$ : exactly one "@", something before it,
\* and after it something, a ".", and something.
MatchEmail(chars) ==
    \E p \in 1..Len(chars) :
        /\ chars[p] = "@"
        /\ \A i \in 1..Len(chars) : chars[i] = "@" => i = p
        /\ p > 1
        /\ \E q \in (p + 2)..(Len(chars) - 1) : chars[q] = "."

\* def match_regex(series, pattern): series.astype(str).str.match(pattern, na=False)
match_regex(vals) == [i \in 1..Len(vals) |-> B(MatchEmail(AsTypeStr(vals[i]).s))]

\* def not_null(series): return ~series.isnull()
not_null(vals) == [i \in 1..Len(vals) |-> B(~IsNull(vals[i]))]

\* pd.to_datetime(x, errors="coerce") of one cell.  A text YYYY-MM-DD, or
\* YYYY-MM-DDThh:mm:ssZ (time zone aware, UTC), parses to a time stamp; a
\* missing value or any other text gives NaT.  key orders the time stamps
\* (seconds since 1970, every month counted as 31 days).
ParseDate(v) ==
    LET c == v.s
        isDate == /\ Len(c) >= 10
                  /\ AllDigits(SubSeq(c, 1, 4)) /\ c[5] = "-"
                  /\ AllDigits(SubSeq(c, 6, 7)) /\ c[8] = "-"
                  /\ AllDigits(SubSeq(c, 9, 10))
                  /\ DecVal(SubSeq(c, 6, 7)) \in 1..12
                  /\ DecVal(SubSeq(c, 9, 10)) \in 1..31
        isTime == /\ Len(c) = 20 /\ c[11] = "T"
                  /\ AllDigits(SubSeq(c, 12, 13)) /\ c[14] = ":"
                  /\ AllDigits(SubSeq(c, 15, 16)) /\ c[17] = ":"
                  /\ AllDigits(SubSeq(c, 18, 19)) /\ c[20] = "Z"
                  /\ DecVal(SubSeq(c, 12, 13)) < 24
                  /\ DecVal(SubSeq(c, 15, 16)) < 60
                  /\ DecVal(SubSeq(c, 18, 19)) < 60
        days == ((DecVal(SubSeq(c, 1, 4)) - 1970) * 12 + DecVal(SubSeq(c, 6, 7)) - 1) * 31
                    + DecVal(SubSeq(c, 9, 10)) - 1
        secs == DecVal(SubSeq(c, 12, 13)) * 3600 + DecVal(SubSeq(c, 15, 16)) * 60
                    + DecVal(SubSeq(c, 18, 19))
    IN  IF v.t = "str" /\ isDate /\ Len(c) = 10
        THEN [ok |-> TRUE, key |-> days * 86400, aware |-> FALSE]
        ELSE IF v.t = "str" /\ isDate /\ isTime
             THEN [ok |-> TRUE, key |-> days * 86400 + secs, aware |-> TRUE]
             ELSE [ok |-> FALSE, key |-> 0, aware |-> FALSE]

\* The dtype of a parsed column is time zone aware when its time stamps are.
TzAware(vals) == \E i \in 1..Len(vals) : ParseDate(vals[i]).aware

\* The .str accessor raises AttributeError on a column that holds no text.
StrAccessorRaises(vals) ==
    /\ \E i \in 1..Len(vals) : vals[i].t = "num"
    /\ \A i \in 1..Len(vals) : vals[i].t # "str"

\* pd.to_datetime(HireDate) <= pd.to_datetime(TerminationDate): False as soon
\* as one side is NaT.
hire_before_termination(data) ==
    [i \in 1..Len(data) |->
        LET h == ParseDate(data[i].v["HireDate"])
            e == ParseDate(data[i].v["TerminationDate"])
        IN  B(h.ok /\ e.ok /\ h.key <= e.key)]

\* ~((JobLevel == 1) & JobRole.str.lower().str.contains("manager"))
junior_not_manager(data) ==
    [i \in 1..Len(data) |->
        B(~(/\ data[i].v["JobLevel"] = Num(1)
            /\ data[i].v["JobRole"].t = "str"
            /\ ContainsText(LowerText(data[i].v["JobRole"].s), TextManagerPat)))]

\* The message of age_range is written here with a plain hyphen.
rules ==
    << [name |-> "empid_not_null", cols |-> <<"EmpID">>,
        message |-> "EmpID must not be null"],
       [name |-> "empid_unique", cols |-> <<"EmpID">>,
        message |-> "EmpID must be unique"],
       [name |-> "age_positive", cols |-> <<"Age">>,
        message |-> "Age must be positive"],
       [name |-> "age_range", cols |-> <<"Age">>,
        message |-> "Age must be 16-70"],
       [name |-> "income_positive", cols |-> <<"MonthlyIncome">>,
        message |-> "Income cannot be negative"],
       [name |-> "email_format", cols |-> <<"WorkEmail">>,
        message |-> "Invalid email format"],
       [name |-> "hire_before_termination", cols |-> <<"HireDate", "TerminationDate">>,
        message |-> "HireDate must be <= TerminationDate"],
       [name |-> "junior_not_manager", cols |-> <<"JobLevel", "JobRole">>,
        message |-> "JobLevel 1 cannot have a manager role"] >>

\* rule_func(df[cols[0]] if len(cols)==1 else df): the mask of verdicts.
RuleFunc(rule, data) ==
    CASE rule.name = "empid_not_null" -> not_null(Col(data, "EmpID"))
      [] rule.name = "empid_unique" ->
            [i \in 1..Len(data) |-> B(~Duplicated(Col(data, "EmpID"))[i])]
      [] rule.name = "age_positive" -> is_positive(Col(data, "Age"))
      [] rule.name = "age_range" -> in_range(Col(data, "Age"), 16, 70)
      [] rule.name = "income_positive" ->
            [i \in 1..Len(data) |-> B(Le(Num(0), data[i].v["MonthlyIncome"]))]
      [] rule.name = "email_format" -> match_regex(Col(data, "WorkEmail"))
      [] rule.name = "hire_before_termination" -> hire_before_termination(data)
      [] rule.name = "junior_not_manager" -> junior_not_manager(data)

\* The predicate raises: comparing a time zone aware column with a naive one
\* is a TypeError, .str on a column without text an AttributeError.
RuleRaises(rule, data) ==
    CASE rule.name = "hire_before_termination" ->
            TzAware(Col(data, "HireDate")) # TzAware(Col(data, "TerminationDate"))
      [] rule.name = "junior_not_manager" -> StrAccessorRaises(Col(data, "JobRole"))
      [] OTHER -> FALSE

\* all(c in df.columns for c in cols)
ColumnsPresent(rule, columns) == \A c \in Range(rule.cols) : c \in columns

\* mask.fillna(False)
MaskFillna(mask) == [i \in 1..Len(mask) |-> IF mask[i] = "NA" THEN "F" ELSE mask[i]]

\* df.index[~mask.fillna(False)], in the wrong order.
FailedReversed(data, mask) ==
    LET m == MaskFillna(mask)
        f == Pick(data, {i \in 1..Len(data) : m[i] # "T"}, 1)
    IN  [k \in 1..Len(f) |-> f[Len(f) + 1 - k]]

\* df.index[~mask.fillna(False)]: the rows whose filled verdict is not True.
Failed(data, mask) ==
    LET m == MaskFillna(mask)
    IN  Pick(data, {i \in 1..Len(data) : m[i] # "T"}, 1)

\* ",".join(cols)
RECURSIVE JoinCols(_)
JoinCols(list) ==
    IF Len(list) = 1 THEN list[1] ELSE list[1] \o "," \o JoinCols(Tail(list))

\* The dict appended to violations for the row r.
ViolationRecord(r, columns, rule) ==
    [index   |-> r.idx,
     EmpID   |-> IF "EmpID" \in columns THEN r.v["EmpID"] ELSE Null,
     rule    |-> rule.name,
     columns |-> JoinCols(rule.cols),
     message |-> rule.message,
     values  |-> [c \in Range(rule.cols) |-> r.v[c]]]

\* One iteration of the loop over rules: the records it appends.
RuleViolations(rule, data, columns) ==
    IF ~ColumnsPresent(rule, columns) THEN <<>>
    ELSE IF RuleRaises(rule, data) THEN <<>>
         ELSE LET failed == Failed(data, RuleFunc(rule, data))
              IN  [k \in 1..Len(failed) |-> ViolationRecord(failed[k], columns, rule)]

-----------------------------------------------------------------------------
(* The loaded CSV files that are explored *)

TextA == <<"A">>

TextB == <<"B">>

TextX == <<"x">>

TextManager == <<"M", "a", "n", "a", "g", "e", "r">>

TextHR == <<"H", "R">>

EmailGood == <<"a", "@", "b", ".", "c">>

EmailNoDot == <<"a", "@", "b">>

EmailNoAt == <<"a", "b">>

Date2019 == <<"2", "0", "1", "9", "-", "0", "1", "-", "0", "1">>

Date2020 == <<"2", "0", "2", "0", "-", "0", "1", "-", "0", "1">>

Date2020Utc == Date2020 \o <<"T", "0", "0", ":", "0", "0", ":", "0", "0", "Z">>

\* Each schema gives the columns of a file and the values a cell of each
\* column is drawn from.  pd.read_csv reads an empty field as NaN, a column
\* of numbers as numbers and any other column as text.
Schemas ==
    { [EmpID |-> {Str(TextA), Str(TextB)},
       Age |-> {Str(TextX), Num(16), Num(71)}],
      [EmpID |-> {Null, Str(TextA)},
       EmployeeNumber |-> {Null, Num(1), Num(2)}],
      [HireDate |-> {Str(TextX), Str(Date2020), Str(Date2020Utc)},
       TerminationDate |-> {Null, Str(Date2020)}],
      [JobLevel |-> {Num(1), Num(2)},
       JobRole |-> {Null, Str(TextManager), Str(TextHR)}],
      [Age |-> {Num(0), Num(16)},
       JobLevel |-> {Num(1)},
       JobRole |-> {Num(7), Num(8)}],
      [MonthlyIncome |-> {Null, Num(-1), Num(4)},
       DistanceFromHome |-> {Null, Num(1)}],
      [WorkEmail |-> {Null, Str(EmailGood), Str(EmailNoDot), Str(EmailNoAt)}],
      [WorkEmail |-> {Str(EmailNoAt)},
       HireDate |-> {Str(Date2020), Str(Date2020Utc)},
       TerminationDate |-> {Str(Date2019)},
       JobLevel |-> {Num(1)},
       JobRole |-> {Str(TextManager), Str(TextHR)}],
      [HireDate |-> {Str(Date2020)},
       JobLevel |-> {Num(1), Num(2)},
       JobRole |-> {Str(TextManager), Str(TextHR)}] }

RowsOf(sch) ==
    {r \in [DOMAIN sch -> UNION {sch[c] : c \in DOMAIN sch}] :
        \A c \in DOMAIN sch : r[c] \in sch[c]}

\* The time stamps of one column are written in one format.
UniformDates(data, columns) ==
    \A c \in columns :
        \A i, j \in 1..Len(data) :
            (ParseDate(data[i].v[c]).ok /\ ParseDate(data[j].v[c]).ok)
                => ParseDate(data[i].v[c]).aware = ParseDate(data[j].v[c]).aware

\* pd.read_csv(RAW_PATH): rows labelled 0, 1, 2, ... in file order.
LoadedFiles(maxRows) ==
    UNION { { [i \in 1..n |-> [idx |-> i - 1, v |-> f[i]]] : f \in [1..n -> RowsOf(sch)] } :
                sch \in Schemas, n \in 1..maxRows }

-----------------------------------------------------------------------------
(* The run *)

\* The sections of the script in the order they execute.
StagesOutliersBeforeDedup ==
    <<"impute_initial", "impute_text", "impute_remaining", "fix_types",
      "outliers", "dedup", "write_interim", "validate", "write_report",
      "write_final", "done">>

Stages ==
    <<"impute_initial", "impute_text", "impute_remaining", "dedup",
      "fix_types", "outliers", "write_interim", "validate", "write_report",
      "write_final", "done">>

StageIndex(s) == CHOOSE k \in 1..Len(Stages) : Stages[k] = s

StageAfter(s) == Stages[StageIndex(s) + 1]

Init ==
    /\ raw \in LoadedFiles(MaxRows)
    /\ UniformDates(raw, DOMAIN raw[1].v)
    /\ df = raw
    /\ cols = DOMAIN raw[1].v
    /\ pc = Stages[1]
    /\ ruleIdx = 1
    /\ violations = <<>>
    /\ interimFile = NoFile
    /\ finalFile = NoFile
    /\ reportFile = <<>>

\* lines 38-45
ImputeInitial ==
    /\ pc = "impute_initial"
    /\ df' = ImputeNumeric(df, cols, numeric_cols_initial)
    /\ pc' = StageAfter(pc)
    /\ UNCHANGED <<raw, cols, ruleIdx, violations, interimFile, finalFile, reportFile>>

\* lines 47-54
ImputeTextCols ==
    /\ pc = "impute_text"
    /\ df' = ImputeText(df, cols, text_cols)
    /\ pc' = StageAfter(pc)
    /\ UNCHANGED <<raw, cols, ruleIdx, violations, interimFile, finalFile, reportFile>>

\* lines 56-65
ImputeRemaining ==
    /\ pc = "impute_remaining"
    /\ df' = ImputeNumeric(df, cols, numeric_cols_remaining)
    /\ pc' = StageAfter(pc)
    /\ UNCHANGED <<raw, cols, ruleIdx, violations, interimFile, finalFile, reportFile>>

\* lines 70-74
DropDuplicateRows ==
    /\ pc = "dedup"
    /\ df' = RemoveDuplicates(df, cols)
    /\ pc' = StageAfter(pc)
    /\ UNCHANGED <<raw, cols, ruleIdx, violations, interimFile, finalFile, reportFile>>

\* lines 79-103
FixDataTypes ==
    /\ pc = "fix_types"
    /\ df' = FixTypes(df, cols)
    /\ pc' = StageAfter(pc)
    /\ UNCHANGED <<raw, cols, ruleIdx, violations, interimFile, finalFile, reportFile>>

\* lines 118-124
DetectOutliers ==
    /\ pc = "outliers"
    /\ df' = FlagOutliers(df, cols, numeric_cols_outliers)
    /\ cols' = cols \cup FlagColumns(cols)
    /\ pc' = StageAfter(pc)
    /\ UNCHANGED <<raw, ruleIdx, violations, interimFile, finalFile, reportFile>>

\* line 126
WriteInterim ==
    /\ pc = "write_interim"
    /\ interimFile' = ToCsv(df, cols)
    /\ pc' = StageAfter(pc)
    /\ UNCHANGED <<raw, df, cols, ruleIdx, violations, finalFile, reportFile>>

\* One iteration of the loop where a rule with an absent column ends the loop.
ValidateRuleBreak ==
    /\ pc = "validate"
    /\ violations' = violations \o RuleViolations(rules[ruleIdx], df, cols)
    /\ ruleIdx' = ruleIdx + 1
    /\ pc' = IF ruleIdx = Len(rules) \/ ~ColumnsPresent(rules[ruleIdx], cols)
             THEN StageAfter(pc) ELSE pc
    /\ UNCHANGED <<raw, df, cols, interimFile, finalFile, reportFile>>

\* One iteration of the loop where a raising predicate discards the report so far.
ValidateRuleRaiseClears ==
    /\ pc = "validate"
    /\ violations' = IF ColumnsPresent(rules[ruleIdx], cols) /\ RuleRaises(rules[ruleIdx], df)
                     THEN <<>>
                     ELSE violations \o RuleViolations(rules[ruleIdx], df, cols)
    /\ ruleIdx' = ruleIdx + 1
    /\ pc' = IF ruleIdx = Len(rules) THEN StageAfter(pc) ELSE pc
    /\ UNCHANGED <<raw, df, cols, interimFile, finalFile, reportFile>>

\* One iteration of the loop that also drops the failing rows from df.
ValidateRuleDropsFailed ==
    /\ pc = "validate"
    /\ violations' = violations \o RuleViolations(rules[ruleIdx], df, cols)
    /\ df' = Pick(df, {i \in 1..Len(df) :
                        \A k \in 1..Len(violations') : violations'[k].index # df[i].idx}, 1)
    /\ ruleIdx' = ruleIdx + 1
    /\ pc' = IF ruleIdx = Len(rules) THEN StageAfter(pc) ELSE pc
    /\ UNCHANGED <<raw, cols, interimFile, finalFile, reportFile>>

\* lines 153-169: one iteration of "for rule_name, rule_func, cols, message in rules"
ValidateRule ==
    /\ pc = "validate"
    /\ violations' = violations \o RuleViolations(rules[ruleIdx], df, cols)
    /\ ruleIdx' = ruleIdx + 1
    /\ pc' = IF ruleIdx = Len(rules) THEN StageAfter(pc) ELSE pc
    /\ UNCHANGED <<raw, df, cols, interimFile, finalFile, reportFile>>

\* lines 171-172
WriteReport ==
    /\ pc = "write_report"
    /\ reportFile' = violations
    /\ pc' = StageAfter(pc)
    /\ UNCHANGED <<raw, df, cols, ruleIdx, violations, interimFile, finalFile>>

\* line 177
WriteFinal ==
    /\ pc = "write_final"
    /\ finalFile' = ToCsv(df, cols)
    /\ pc' = StageAfter(pc)
    /\ UNCHANGED <<raw, df, cols, ruleIdx, violations, interimFile, reportFile>>

Next ==
    \/ ImputeInitial
    \/ ImputeTextCols
    \/ ImputeRemaining
    \/ DropDuplicateRows
    \/ FixDataTypes
    \/ DetectOutliers
    \/ WriteInterim
    \/ ValidateRule
    \/ WriteReport
    \/ WriteFinal

Spec == Init /\ [][Next]_vars

-----------------------------------------------------------------------------
(* detect_outliers_iqr called on its own *)

OutlierValues == {Null, Num(0), Num(1), Num(2), Num(10)}

InitOutlier ==
    /\ \E c \in Range(numeric_cols_outliers), n \in 1..MaxOutRows :
         \E f \in [1..n -> OutlierValues] :
            raw = [i \in 1..n |->
                     [idx |-> i - 1,
                      v |-> [k \in {c, "EmpID"} |->
                                IF k = c THEN f[i] ELSE Str(TextA)]]]
    /\ df = raw
    /\ cols = DOMAIN raw[1].v
    /\ pc = "call_detect_outliers"
    /\ ruleIdx = 1
    /\ violations = <<>>
    /\ interimFile = NoFile
    /\ finalFile = NoFile
    /\ reportFile = <<>>

\* The designated column of the data frame handed to the function.
OutlierColumn == CHOOSE c \in Range(numeric_cols_outliers) : c \in DOMAIN raw[1].v

\* lines 108-116: data = detect_outliers_iqr(data, column)
CallDetectOutliers ==
    /\ pc = "call_detect_outliers"
    /\ df' = detect_outliers_iqr(df, OutlierColumn)
    /\ cols' = cols \cup {FlagCol(OutlierColumn)}
    /\ pc' = "returned"
    /\ UNCHANGED <<raw, ruleIdx, violations, interimFile, finalFile, reportFile>>

SpecOutlier == InitOutlier /\ [][CallDetectOutliers]_vars

-----------------------------------------------------------------------------
(* Properties *)

Done == pc = "done"

IdxSet(data) == {data[i].idx : i \in 1..Len(data)}

\* The loaded row that carries the index label idx.
RawRow(idx) == raw[idx + 1]

\* The position in df of the row labelled idx.
PosOf(idx) == CHOOSE i \in 1..Len(df) : df[i].idx = idx

RuleIndex(name) == CHOOSE k \in 1..Len(rules) : rules[k].name = name

RecordsOf(name) == SelectSeq(violations, LAMBDA r : r.rule = name)

\* Section 3 as a whole.
ImputeAll(data, columns) ==
    ImputeNumeric(ImputeText(ImputeNumeric(data, columns, numeric_cols_initial),
                             columns, text_cols),
                  columns, numeric_cols_remaining)

\* The report of the loop run over an arbitrary list of rules.
RECURSIVE RunRules(_, _, _)
RunRules(list, data, columns) ==
    IF list = <<>> THEN <<>>
    ELSE RuleViolations(Head(list), data, columns) \o RunRules(Tail(list), data, columns)

RemoveAt(list, k) == SubSeq(list, 1, k - 1) \o SubSeq(list, k + 1, Len(list))

RECURSIVE SumOver(_, _)
SumOver(f, k) == IF k = 0 THEN 0 ELSE f[k] + SumOver(f, k - 1)

InValidationOrLater == pc \in {"validate", "write_report", "write_final", "done"}

AfterOutliers ==
    pc \in {"write_interim", "validate", "write_report", "write_final", "done"}

\* The rule was evaluated: its columns are present and its predicate returned.
Evaluated(k) == ColumnsPresent(rules[k], cols) /\ ~RuleRaises(rules[k], df)

\* The rows of df on which rule k returned an explicit False.
ExplicitFalse(k) ==
    IF Evaluated(k)
    THEN {i \in 1..Len(df) : RuleFunc(rules[k], df)[i] = "F"}
    ELSE {}

\* The value a comparison rule compares is missing at the record's row: NaN
\* for the numeric rules, NaT (missing or unparsable) for the date rule.
ComparedValueMissing(r) ==
    \/ /\ r.rule \in {"age_positive", "age_range"}
       /\ IsNull(r.values["Age"])
    \/ /\ r.rule = "income_positive"
       /\ IsNull(r.values["MonthlyIncome"])
    \/ /\ r.rule = "hire_before_termination"
       /\ (~ParseDate(r.values["HireDate"]).ok \/ ~ParseDate(r.values["TerminationDate"]).ok)

\* C1: a verdict that is unknown because the compared value is missing (NaN
\* Age or income, missing or unparsable HireDate / TerminationDate) is a
\* pass: no violation record is emitted for such a (row, rule) pair.
C1_NullVerdictIsPass ==
    \A k \in 1..Len(violations) : ~ComparedValueMissing(violations[k])

\* The 3-row input of C2: columns EmpID and Age, exactly one row repeats an
\* earlier row's EmpID, the ages are numbers and exactly one is outside [16, 70].
C2_Repeats == {i \in 1..Len(raw) : \E j \in 1..(i - 1) : raw[j].v["EmpID"] = raw[i].v["EmpID"]}

C2_OutOfRange == {i \in 1..Len(raw) : ~(Le(Num(16), raw[i].v["Age"]) /\ Le(raw[i].v["Age"], Num(70)))}

C2_Case ==
    /\ Len(raw) = 3
    /\ DOMAIN raw[1].v = {"EmpID", "Age"}
    /\ \A i \in 1..3 : raw[i].v["Age"].t = "num"
    /\ Cardinality(C2_Repeats) = 1
    /\ Cardinality(C2_OutOfRange) = 1

\* C2 as stated: the run on such an input ends with exactly 2 records, one
\* empid_unique and one age_range, and every later repeat of an EmpID in the
\* input has its empid_unique record.
C2_Original ==
    Done =>
        /\ C2_Case => /\ Len(violations) = 2
                      /\ Len(RecordsOf("empid_unique")) = 1
                      /\ Len(RecordsOf("age_range")) = 1
        /\ "EmpID" \in cols =>
              \A i \in C2_Repeats :
                 \E k \in 1..Len(violations) :
                    violations[k].rule = "empid_unique" /\ violations[k].index = i - 1

\* C2 amended: deduplication removes every later repeat of an EmpID before
\* validation, so no run reports empid_unique; on the 3-row input the report
\* has one age_range record when the out-of-range row survives deduplication
\* and none when it is the removed row.
C2_Amended ==
    Done =>
        /\ RecordsOf("empid_unique") = <<>>
        /\ "EmpID" \in cols => \A i \in C2_Repeats : (i - 1) \notin IdxSet(df)
        /\ C2_Case =>
              /\ Len(df) = 2
              /\ Len(RecordsOf("age_range")) =
                    Cardinality({i \in C2_OutOfRange : (i - 1) \in IdxSet(df)})

C2_Witness ==
    /\ Done
    /\ C2_Case
    /\ Len(RecordsOf("age_range")) = 1
    /\ Len(violations) = 1

\* C3: the report holds one record per (row, rule) pair with an explicit
\* False verdict, so its length is the sum over the rules of the number of
\* such rows, and it is ordered by rule in declaration order and, within a
\* rule, by row in dataset order.
C3_ReportCountAndOrder ==
    LET n == ruleIdx - 1
    IN  /\ Len(violations) = SumOver([k \in 1..n |-> Cardinality(ExplicitFalse(k))], n)
        /\ \A k \in 1..n : \A i \in ExplicitFalse(k) :
              Cardinality({j \in 1..Len(violations) :
                              /\ violations[j].rule = rules[k].name
                              /\ violations[j].index = df[i].idx}) = 1
        /\ \A a, b \in 1..Len(violations) :
              a < b =>
                 \/ RuleIndex(violations[a].rule) < RuleIndex(violations[b].rule)
                 \/ /\ violations[a].rule = violations[b].rule
                    /\ PosOf(violations[a].index) < PosOf(violations[b].index)

\* A row failing two rules, and a rule failing two rows.
C3_Witness ==
    /\ Done
    /\ \E a, b \in 1..Len(violations) :
          violations[a].index = violations[b].index /\ violations[a].rule # violations[b].rule
    /\ \E a, b \in 1..Len(violations) :
          violations[a].index # violations[b].index /\ violations[a].rule = violations[b].rule

\* C4: a rule one of whose required columns is absent contributes no record,
\* the loop goes on through all the rules, and the report is the one of the
\* rule list without the skipped rule.
C4_AbsentColumnSkipsRule ==
    Done =>
       /\ ruleIdx = Len(rules) + 1
       /\ \A k \in 1..Len(rules) :
             ~ColumnsPresent(rules[k], cols) =>
                /\ RecordsOf(rules[k].name) = <<>>
                /\ violations = RunRules(RemoveAt(rules, k), df, cols)

\* A rule with one of its two columns absent is skipped and a later rule
\* reports.
C4_Witness ==
    /\ Done
    /\ "HireDate" \in cols
    /\ "TerminationDate" \notin cols
    /\ RecordsOf("junior_not_manager") # <<>>

\* C5: a rule whose predicate raises contributes no record, leaves the
\* records of the earlier rules as they were, does not stop the run (the
\* loop reaches the end of the rule list), and every later rule is evaluated
\* as usual.
C5_RaisingRuleSkipped ==
    /\ Done => ruleIdx = Len(rules) + 1
    /\ \A k \in 1..(ruleIdx - 1) :
          (ColumnsPresent(rules[k], cols) /\ RuleRaises(rules[k], df)) =>
             /\ RecordsOf(rules[k].name) = <<>>
             /\ violations = RunRules(SubSeq(rules, 1, k - 1), df, cols)
                                \o RunRules(SubSeq(rules, k + 1, ruleIdx - 1), df, cols)

\* hire_before_termination raised after an earlier rule reported, and the
\* later rule junior_not_manager reported too.
C5_Witness ==
    /\ Done
    /\ ColumnsPresent(rules[7], cols) /\ RuleRaises(rules[7], df)
    /\ RecordsOf("email_format") # <<>>
    /\ RecordsOf("junior_not_manager") # <<>>

\* C6: the call adds <column>_outlier, 0 or 1 on every row, 1 exactly when
\* the value is below Q1 - 1.5*IQR or above Q3 + 1.5*IQR for the quartiles of
\* the non-null values (stated without fractions: 2v < 5*Q1 - 3*Q3 or
\* 2v > 5*Q3 - 3*Q1), 0 on a null value; the rows and the other columns are
\* as before.
C6_OutlierFlags ==
    pc = "returned" =>
        LET c == OutlierColumn
            vals == Col(raw, c)
            Q1 == Quantile(vals, 1)
            Q3 == Quantile(vals, 3)
            lower2 == Sub(Scale(Q1, 5, 1), Scale(Q3, 3, 1))
            upper2 == Sub(Scale(Q3, 5, 1), Scale(Q1, 3, 1))
        IN  /\ cols = DOMAIN raw[1].v \cup {FlagCol(c)}
            /\ Len(df) = Len(raw)
            /\ \A i \in 1..Len(df) :
                  /\ df[i].idx = raw[i].idx
                  /\ DOMAIN df[i].v = cols
                  /\ \A k \in DOMAIN raw[i].v : df[i].v[k] = raw[i].v[k]
                  /\ df[i].v[FlagCol(c)] \in {Num(0), Num(1)}
                  /\ df[i].v[FlagCol(c)] = Num(1) <=>
                        /\ ~IsNull(vals[i])
                        /\ \/ Lt(Scale(vals[i], 2, 1), lower2)
                           \/ Lt(upper2, Scale(vals[i], 2, 1))
                  /\ IsNull(vals[i]) => df[i].v[FlagCol(c)] = Num(0)

\* A column with a flagged value and a null value.
C6_Witness ==
    /\ pc = "returned"
    /\ \E i \in 1..Len(df) : df[i].v[FlagCol(OutlierColumn)] = Num(1)
    /\ \E i \in 1..Len(df) : IsNull(df[i].v[OutlierColumn])

\* C7 as stated: when the flagging step runs, imputation and type coercion
\* are final and no row has been dropped: the rows are those loaded.
C7_Original ==
    pc = "outliers" =>
        /\ ImputeAll(df, cols) = df
        /\ FixTypes(df, cols) = df
        /\ IdxSet(df) = IdxSet(raw)

\* C7 amended: the flagging step runs after imputation, deduplication and
\* type coercion; the fence is computed over the deduplicated rows, and no
\* row is dropped and no flagged column changes afterwards.
C7_Amended ==
    /\ pc = "outliers" =>
          /\ ImputeAll(df, cols) = df
          /\ FixTypes(df, cols) = df
    /\ (pc = "outliers" \/ AfterOutliers) =>
          IdxSet(df) = IdxSet(RemoveDuplicates(ImputeAll(raw, DOMAIN raw[1].v),
                                               DOMAIN raw[1].v))
    /\ AfterOutliers =>
          \A k \in 1..Len(numeric_cols_outliers) :
             numeric_cols_outliers[k] \in cols =>
                Col(df, FlagCol(numeric_cols_outliers[k]))
                    = OutlierFlags(Col(df, numeric_cols_outliers[k]))

\* Flags computed on a dataset that deduplication has shortened.
C7_Witness ==
    /\ pc = "write_interim"
    /\ Len(df) < Len(raw)
    /\ FlagColumns(cols) # {}

\* C8: right after the imputation stage no designated numeric column that is
\* present holds a null, and imputing again changes nothing.
C8_NoNullAfterImputation ==
    pc = "dedup" =>
        /\ \A c \in (Range(numeric_cols_initial) \cup Range(numeric_cols_remaining)) \cap cols :
              \A i \in 1..Len(df) : ~IsNull(df[i].v[c])
        /\ ImputeAll(df, cols) = df

\* C9: empid_not_null reports exactly the rows of the validated dataset whose
\* EmpID was missing in the loaded data.
C9_MissingEmpIdReported ==
    (Done /\ "EmpID" \in cols) =>
        \A i \in 1..Len(df) :
            IsNull(RawRow(df[i].idx).v["EmpID"]) <=>
                \E k \in 1..Len(violations) :
                    violations[k].rule = "empid_not_null" /\ violations[k].index = df[i].idx

\* C10: validation leaves the dataset alone: from the interim write on, df
\* is what the interim file holds, and the final file equals the interim file.
C10_ValidationReadOnly ==
    /\ InValidationOrLater => ToCsv(df, cols) = interimFile
    /\ Done => finalFile = interimFile

\* A finished run with violations reported.
C10_Witness ==
    /\ Done
    /\ violations # <<>>
    /\ finalFile # NoFile
    /\ finalFile = interimFile

====
